---- MODULE Spec2Model ----
(***************************************************************************)
(* Boats / loads / users REST API over a document datastore.               *)
(*                                                                         *)
(* Two generations of the routers live in the repository:                  *)
(*   "auth" : src/routes/users.js (boats router, lines 69-474),            *)
(*            src/unnamed/part_004 (loads router, lines 68-319),           *)
(*            src/unnamed/part_003 (utils), src/unnamed/part_000 (app)     *)
(*   "base" : src/routes/boats.js (boats router, no owners),               *)
(*            src/unnamed/part_005 (loads router),                         *)
(*            src/unnamed/part_002 (utils), src/unnamed/part_001 (app);    *)
(*            checkJwt, which boats.js imports, is that of part_003        *)
(* The variable `variant` fixes which generation a behaviour runs.         *)
(*                                                                         *)
(* Every request is a little process: it sits in a slot of `reqs`, and     *)
(* each of its awaits on the datastore is one step, so that requests       *)
(* interleave exactly at their awaits.                                     *)
(***************************************************************************)
EXTENDS Integers, Sequences, FiniteSets, TLC

(* ---------------------------- bounds ---------------------------------- *)
MaxBoats == 2
MaxLoads == 2
MaxSubjects == 2
MaxInFlight == 2
MaxFaults == 2
MaxOverlaps == 1
HttpLoads == 1
ConcLoads == 1
NarrowFaults == 1
NarrowSubjects == 1
OwnBoats == 1
MaxItems == 11

BoatIds == 1..MaxBoats
LoadIds == 1..MaxLoads
Subjects == 1..MaxSubjects
Slots == 1..MaxInFlight

\* A path parameter that parseInt turns into NaN; the lookup then rejects
\* with code 3.
BadId == 0
\* A request without a valid bearer token / session user.
NoToken == 0

(* ------------------------ messages (constants) ------------------------ *)
BAD_REQUEST == "The request object is missing at least one of the required attributes"
BOAT_NOT_FOUND == "No boat with this boat_id exists"
BOAT_OR_LOAD_NOT_FOUND == "The specified boat and/or load does not exist"
LOAD_ALREADY_ASSIGNED == "The load is already assigned"
LOAD_ELSEWHERE == "The load is not on this boat"
NOT_REGISTERED == "The associated user is not registered"
NOT_REGISTERED_BASE == "The associated user is not registered."
NOT_OWNER == "The associated user does not own the boat with the requested boat_id"
NOT_FOUND == "No load with this load_id exists"
NOT_ACCEPTABLE == "Unsupported 'Accept' header. Must accept 'application/json'"
UNAUTHORIZED == "Missing/invalid authorization"
SERVER_ERROR == "Something went wrong. We will fix it shortly."
NoMsg == ""

(* ----------------------------- documents ------------------------------ *)
\* load.carrier: null is the record with id 0 (datastore ids start at 1).
NullCarrier == [id |-> 0, name |-> 0]

\* `if (load.carrier)`
hasCarrier(load) == load.carrier.id # 0

\* new Date(x): Date objects are the values above 10, raw body values 0..2.
toDate(x) == x + 10

isDate(x) == x >= 10

\* Bodies: 0 stands for a property that is absent (undefined).
NoBody == [p1 |-> 0, p2 |-> 0, p3 |-> 0]

\* getBoatProps: picks name, type, length out of the body.
getBoatProps(body) == [name |-> body.p1, type |-> body.p2, length |-> body.p3]

\* isBadRequest (boats): some of name, type, length is missing (falsy).
isBadRequest(boat) == ~(boat.name # 0 /\ boat.type # 0 /\ boat.length # 0)

\* getLoadProps: the base router converts creation_date at once (an absent
\* date becomes an Invalid Date object, which is truthy); the auth router
\* leaves it raw.
getLoadProps(v, body) ==
  [volume |-> body.p1, content |-> body.p2,
   creation_date |-> IF v = "base" THEN toDate(body.p3) ELSE body.p3]

\* isBadRequest (loads)
isBadLoadRequest(load) ==
  ~(load.volume # 0 /\ load.content # 0 /\ load.creation_date # 0)

(* ----------------------------- state ---------------------------------- *)
VARIABLES
  variant,   \* "auth" or "base"
  users,     \* keys of the Users kind
  boats,     \* Boats kind: function id -> document
  loads,     \* Loads kind: function id -> document
  nextBoat,  \* next id the datastore allocates for a boat
  nextLoad,  \* next id the datastore allocates for a load
  reqs,      \* requests in flight or just answered, per slot
  faults,    \* datastore calls that have failed so far
  overlaps,  \* requests that arrived while another one was in flight
  pre,       \* the store when the latest request of a sequential run began
  rt,        \* the last successful assign of a sequential run
  profile,   \* "seq", "http", "edit": one request at a time;
             \* "conc", "own": requests interleave;
             \* "pages": a client follows the `next` links of a list
  walk       \* the traversal of a list: the collection and the pages received

vars ==
  <<variant, users, boats, loads, nextBoat, nextLoad, reqs, faults, overlaps, pre, rt,
    profile, walk>>

store == <<users, boats, loads, nextBoat, nextLoad>>

Idle ==
  [op |-> "none", sub |-> NoToken, b |-> 0, l |-> 0, body |-> NoBody, acc |-> TRUE,
   pc |-> "idle", pend |-> {}, rb |-> <<>>, rl |-> <<>>, rls |-> <<>>,
   status |-> 0, msg |-> NoMsg, writes |-> 0]

NoRt == [b |-> 0, l |-> 0, loads |-> <<>>]

NoPre == [users |-> {}, boats |-> <<>>, loads |-> <<>>]

free(r) == r.pc \in {"idle", "done", "hung"}

NoTotal == 0 - 1

\* A traversal: the result set of the list's query in query order, the
\* cursor of the next request (0: none), the pages received so far, whether
\* the last page carried a `next` link (TRUE before the first request).
NoWalk ==
  [op |-> "none", coll |-> <<>>, cursor |-> 0, pages |-> <<>>, more |-> FALSE]

Walks(p) ==
  IF p = "pages"
  THEN {[op |-> op, coll |-> [k \in 1..n |-> k], cursor |-> 0, pages |-> <<>>,
         more |-> TRUE] : op \in {"listBoats", "listLoads"}, n \in 0..MaxItems}
  ELSE {NoWalk}

inFlight(r) == ~free(r)

\* The state after the application is constructed, run under profile p.
Construct(p) ==
  /\ variant \in {"auth", "base"}
  \* The base application mounts no registration route: its Users kind is
  \* filled from outside (one subject is left unregistered).
  /\ users = IF variant = "base" THEN 1..NarrowSubjects ELSE {}
  /\ boats = <<>>
  /\ loads = <<>>
  /\ nextBoat = 1
  /\ nextLoad = 1
  /\ reqs = [s \in Slots |-> Idle]
  /\ faults = 0
  /\ overlaps = 0
  /\ pre = NoPre
  /\ rt = NoRt
  /\ profile = p
  /\ walk \in Walks(p)

Init == Construct("conc")

InitSeq == Construct("seq")

InitHttp == Construct("http")

InitEdit == Construct("edit")

InitOwn == Construct("own")

InitPages == Construct("pages")


(* ------------------------- pure helpers ------------------------------- *)
EmptyFn == [x \in {} |-> 0]

Put(f, k, v) == [x \in (DOMAIN f) \cup {k} |-> IF x = k THEN v ELSE f[x]]

Drop(f, k) == [x \in (DOMAIN f) \ {k} |-> f[x]]

Max(a, b) == IF a > b THEN a ELSE b

Min(a, b) == IF a < b THEN a ELSE b

\* Array.prototype.findIndex(load => load.id === id): 0-based, -1 if none.
findIndex(s, id) ==
  IF \E k \in 1..Len(s) : s[k] = id
  THEN (CHOOSE k \in 1..Len(s) : s[k] = id /\ \A j \in 1..(k - 1) : s[j] # id) - 1
  ELSE 0 - 1

\* Array.prototype.splice(index, 1): a negative index counts from the end.
splice(s, index) ==
  LET start == IF index < 0 THEN Max(Len(s) + index, 0) ELSE Min(index, Len(s))
  IN [k \in 1..(Len(s) - Min(1, Len(s) - start)) |->
        IF k <= start THEN s[k] ELSE s[k + 1]]

ids(s) == {s[k] : k \in 1..Len(s)}

\* findEntity: the document under the key, or undefined.
findEntity(kind, id) == IF id \in DOMAIN kind THEN <<kind[id]>> ELSE <<>>

\* loadRepr calls load.creation_date.toLocaleDateString: it throws a
\* TypeError unless the stored creation_date is a Date.
loadReprThrows(load) == ~isDate(load.creation_date)

(* ------------------------ responses ----------------------------------- *)
\* The request is answered and has no datastore call outstanding.
respond(r, code, message) ==
  [Idle EXCEPT !.op = r.op, !.status = code, !.msg = message, !.pc = "done",
               !.writes = r.writes]

\* handleClientError: sets the status and the message and sends the body
\* (auth: at once; base: through next() and the application's 4xx handler).
handleClientError(r, statusCode, message) == respond(r, statusCode, message)

ServerErrorStatus == 500

\* handleServerError: status 500, the generic message, next(error); the
\* application's error handler sends {Error: res.locals.errorMsg}.
handleServerError(r) == respond(r, ServerErrorStatus, SERVER_ERROR)

\* An exception thrown inside an async handler or a promise callback that
\* nothing catches: no response is ever sent.
unhandled(r) ==
  [Idle EXCEPT !.op = r.op, !.status = r.status, !.msg = r.msg, !.pc = "hung",
               !.writes = r.writes]

(* ---------------------- routes and middleware ------------------------- *)
BoatOps == {"postBoat", "getBoat", "assign", "unassign", "deleteBoat", "listBoats",
            "putBoat", "patchBoat", "boatLoads"}

LoadOps == {"postLoad", "getLoad", "deleteLoad", "listLoads", "putLoad", "patchLoad"}

UserOps == {"register", "listUsers"}

\* The routes each generation mounts.
Routes(v) ==
  IF v = "auth"
  THEN (BoatOps \ {"boatLoads"}) \cup LoadOps \cup UserOps
  ELSE {"postBoat", "getBoat", "assign", "unassign", "deleteBoat", "listBoats",
        "boatLoads", "postLoad", "getLoad", "deleteLoad", "listLoads"}

\* Routes behind checkJwt and checkRegistered.
usesJwt(v, op) ==
  /\ op \in BoatOps
  /\ (v = "auth" \/ op \notin {"assign", "unassign"})

\* Routes behind isAcceptable.
usesAccept(v, op) == v = "auth" /\ op \in BoatOps \cup LoadOps

\* The handler up to its first await: request validation, then the first
\* datastore call is issued.
handler(v, r) ==
  CASE r.op = "postBoat" ->
         IF isBadRequest(getBoatProps(r.body))
         THEN handleClientError(r, 400, BAD_REQUEST)
         ELSE [r EXCEPT !.pc = "insert"]
    [] r.op = "putBoat" ->
         IF isBadRequest(getBoatProps(r.body))
         THEN handleClientError(r, 400, BAD_REQUEST)
         ELSE [r EXCEPT !.pc = "find", !.pend = {"boat"}]
    [] r.op \in {"getBoat", "deleteBoat", "patchBoat", "boatLoads"} ->
         [r EXCEPT !.pc = "find", !.pend = {"boat"}]
    [] r.op \in {"assign", "unassign"} ->
         [r EXCEPT !.pc = "find", !.pend = {"boat", "load"}]
    [] r.op \in {"listBoats", "listLoads", "listUsers"} ->
         [r EXCEPT !.pc = "query"]
    [] r.op = "postLoad" ->
         IF isBadLoadRequest(getLoadProps(v, r.body))
         THEN handleClientError(r, 400, BAD_REQUEST)
         ELSE [r EXCEPT !.pc = "insert"]
    [] r.op = "putLoad" ->
         IF isBadLoadRequest(getLoadProps(v, r.body))
         THEN handleClientError(r, 400, BAD_REQUEST)
         ELSE [r EXCEPT !.pc = "find", !.pend = {"load"}]
    [] r.op \in {"getLoad", "deleteLoad", "patchLoad"} ->
         [r EXCEPT !.pc = "find", !.pend = {"load"}]
    [] r.op = "register" -> [r EXCEPT !.pc = "txget"]

\* isAcceptable, then the handler.
isAcceptable(v, r) ==
  IF usesAccept(v, r.op) /\ ~r.acc
  THEN handleClientError(r, 406, NOT_ACCEPTABLE)
  ELSE handler(v, r)

\* The synchronous head of the middleware chain. checkJwt passes an
\* UnauthorizedError to the error handler (401); GET /user redirects a
\* request without a session user to the login page.
dispatch(v, r) ==
  IF usesJwt(v, r.op)
  THEN IF r.sub = NoToken
       THEN respond(r, 401, UNAUTHORIZED)
       ELSE [r EXCEPT !.pc = "registered"]
  ELSE IF r.op = "register" /\ r.sub = NoToken
       THEN respond(r, 302, NoMsg)
       ELSE isAcceptable(v, r)


(* ------------------------- datastore calls ---------------------------- *)
Sequential == profile \in {"seq", "http", "edit"}

\* The snapshot of a sequential run is dropped when its request is settled.
Frame(i) == pre' = (IF free(reqs'[i]) THEN NoPre ELSE pre) /\ walk' = walk

\* A datastore call fails (rejects with an error that is not code 3).
faultsLimit == IF profile = "seq" THEN MaxFaults ELSE NarrowFaults

Fault == faults < faultsLimit /\ faults' = faults + 1

NoFault == faults' = faults

Set(i, r) == reqs' = [reqs EXCEPT ![i] = r]

\* settle, answering `okStatus` once every call has settled, rejected or not.
settleOptimistic(r, k, ok, okStatus) ==
  LET left == r.pend \ {k}
      r1 == [r EXCEPT !.pend = left, !.writes = IF ok THEN @ + 1 ELSE @]
  IN IF left = {} THEN respond(r1, okStatus, NoMsg) ELSE r1

\* The outcome of one of the calls of a Promise.all of writes: the first
\* rejection answers 500 through handleServerError, the last fulfilment
\* answers `okStatus`; a call that settles after the response changes nothing
\* in it.
settle(r, k, ok, okStatus) ==
  LET left == r.pend \ {k}
      r1 == [r EXCEPT !.pend = left,
                      !.writes = IF ok THEN @ + 1 ELSE @]
      r2 == IF r1.status # 0 THEN r1
            ELSE IF ~ok
                 THEN [r1 EXCEPT !.status = ServerErrorStatus, !.msg = SERVER_ERROR]
                 ELSE IF left = {}
                      THEN [r1 EXCEPT !.status = okStatus]
                      ELSE r1
  IN IF left = {}
     THEN respond(r2, r2.status, r2.msg)
     ELSE r2

(* ------------------------- checkRegistered ---------------------------- *)
notRegistered(v) == IF v = "auth" THEN NOT_REGISTERED ELSE NOT_REGISTERED_BASE

\* checkRegistered: await findEntity(USERS, req.user.sub).
CheckRegistered(i) ==
  LET r == reqs[i] IN
  /\ r.pc = "registered"
  /\ \/ /\ Fault
        /\ Set(i, handleServerError(r))
     \/ /\ NoFault
        /\ Set(i, IF r.sub \notin users
                  THEN handleClientError(r, 403, notRegistered(variant))
                  ELSE isAcceptable(variant, r))
  /\ UNCHANGED <<variant, store, overlaps, rt, profile>> /\ Frame(i)

(* --------------------- assign: PUT /boats/b/loads/l -------------------- *)
\* ownerOk with the comparison left out.
ownerAny(v, boat, sub) == TRUE

ownerOk(v, boat, sub) == v = "base" \/ boat.owner = sub

\* assignThen without the check that the load has no carrier yet.
assignThenNoCheck(v, r) ==
  IF r.rb = <<>> \/ r.rl = <<>>
  THEN handleClientError(r, 404, BOAT_OR_LOAD_NOT_FOUND)
  ELSE IF ~ownerOk(v, r.rb[1], r.sub)
  THEN handleClientError(r, 403, NOT_OWNER)
  ELSE [r EXCEPT
          !.rl = <<[r.rl[1] EXCEPT !.carrier =
                     [id |-> r.b, name |-> IF v = "base" THEN r.rb[1].name ELSE 0]]>>,
          !.rb = <<[r.rb[1] EXCEPT !.loads = Append(@, r.l)]>>,
          !.pc = "update", !.pend = {"load", "boat"}]

\* assignThen that does not push the load onto the boat's list.
assignThenNoPush(v, r) ==
  IF r.rb = <<>> \/ r.rl = <<>>
  THEN handleClientError(r, 404, BOAT_OR_LOAD_NOT_FOUND)
  ELSE IF ~ownerOk(v, r.rb[1], r.sub)
  THEN handleClientError(r, 403, NOT_OWNER)
  ELSE IF hasCarrier(r.rl[1])
  THEN handleClientError(r, 403, LOAD_ALREADY_ASSIGNED)
  ELSE [r EXCEPT
          !.rl = <<[r.rl[1] EXCEPT !.carrier =
                     [id |-> r.b, name |-> IF v = "base" THEN r.rb[1].name ELSE 0]]>>,
          !.pc = "update", !.pend = {"load", "boat"}]

\* The callback that runs once both documents are read.
assignThen(v, r) ==
  IF r.rb = <<>> \/ r.rl = <<>>
  THEN handleClientError(r, 404, BOAT_OR_LOAD_NOT_FOUND)
  ELSE IF ~ownerOk(v, r.rb[1], r.sub)
  THEN handleClientError(r, 403, NOT_OWNER)
  ELSE IF hasCarrier(r.rl[1])
  THEN handleClientError(r, 403, LOAD_ALREADY_ASSIGNED)
  ELSE [r EXCEPT
          !.rl = <<[r.rl[1] EXCEPT !.carrier =
                     [id |-> r.b, name |-> IF v = "base" THEN r.rb[1].name ELSE 0]]>>,
          !.rb = <<[r.rb[1] EXCEPT !.loads = Append(@, r.l)]>>,
          !.pc = "update", !.pend = {"load", "boat"}]

\* unassignThen that leaves the load's carrier as it is.
unassignThenKeepCarrier(v, r) ==
  IF r.rb = <<>> \/ r.rl = <<>>
  THEN handleClientError(r, 404, BOAT_OR_LOAD_NOT_FOUND)
  ELSE IF ~ownerOk(v, r.rb[1], r.sub)
  THEN handleClientError(r, 403, NOT_OWNER)
  ELSE IF ~hasCarrier(r.rl[1]) \/ r.rl[1].carrier.id # r.b
  THEN handleClientError(r, 403, LOAD_ELSEWHERE)
  ELSE [r EXCEPT
          !.rb = <<[r.rb[1] EXCEPT !.loads = splice(@, findIndex(@, r.l))]>>,
          !.pc = "update", !.pend = {"load", "boat"}]

\* unassignThen that splices out the first entry of the list.
unassignThenFirst(v, r) ==
  IF r.rb = <<>> \/ r.rl = <<>>
  THEN handleClientError(r, 404, BOAT_OR_LOAD_NOT_FOUND)
  ELSE IF ~ownerOk(v, r.rb[1], r.sub)
  THEN handleClientError(r, 403, NOT_OWNER)
  ELSE IF ~hasCarrier(r.rl[1]) \/ r.rl[1].carrier.id # r.b
  THEN handleClientError(r, 403, LOAD_ELSEWHERE)
  ELSE [r EXCEPT
          !.rl = <<[r.rl[1] EXCEPT !.carrier = NullCarrier]>>,
          !.rb = <<[r.rb[1] EXCEPT !.loads = splice(@, 0)]>>,
          !.pc = "update", !.pend = {"load", "boat"}]

\* unassignThen without the check that the load is on this boat.
unassignThenNoCheck(v, r) ==
  IF r.rb = <<>> \/ r.rl = <<>>
  THEN handleClientError(r, 404, BOAT_OR_LOAD_NOT_FOUND)
  ELSE IF ~ownerOk(v, r.rb[1], r.sub)
  THEN handleClientError(r, 403, NOT_OWNER)
  ELSE [r EXCEPT
          !.rl = <<[r.rl[1] EXCEPT !.carrier = NullCarrier]>>,
          !.rb = <<[r.rb[1] EXCEPT !.loads = splice(@, findIndex(@, r.l))]>>,
          !.pc = "update", !.pend = {"load", "boat"}]

\* The callback of unassign.
unassignThen(v, r) ==
  IF r.rb = <<>> \/ r.rl = <<>>
  THEN handleClientError(r, 404, BOAT_OR_LOAD_NOT_FOUND)
  ELSE IF ~ownerOk(v, r.rb[1], r.sub)
  THEN handleClientError(r, 403, NOT_OWNER)
  ELSE IF ~hasCarrier(r.rl[1]) \/ r.rl[1].carrier.id # r.b
  THEN handleClientError(r, 403, LOAD_ELSEWHERE)
  ELSE [r EXCEPT
          !.rl = <<[r.rl[1] EXCEPT !.carrier = NullCarrier]>>,
          !.rb = <<[r.rb[1] EXCEPT !.loads = splice(@, findIndex(@, r.l))]>>,
          !.pc = "update", !.pend = {"load", "boat"}]

\* Promise.all([findEntity(BOATS, boatId), findEntity(LOADS, loadId)]): one of
\* the two lookups settles; the callback runs with the second.
PairFind(i) ==
  LET r == reqs[i] IN
  /\ r.op \in {"assign", "unassign"}
  /\ r.pc = "find"
  /\ \E k \in r.pend :
       LET id == IF k = "boat" THEN r.b ELSE r.l
           r1 == IF k = "boat"
                 THEN [r EXCEPT !.rb = findEntity(boats, r.b), !.pend = @ \ {k}]
                 ELSE [r EXCEPT !.rl = findEntity(loads, r.l), !.pend = @ \ {k}]
       IN IF id = BadId
          THEN \* the lookup rejects with code 3
               /\ NoFault
               /\ Set(i, handleClientError(r, 404, BOAT_OR_LOAD_NOT_FOUND))
          ELSE \/ /\ Fault
                  /\ Set(i, handleServerError(r))
               \/ /\ NoFault
                  /\ Set(i, IF r1.pend # {} THEN r1
                            ELSE IF r.op = "assign" THEN assignThen(variant, r1)
                            ELSE unassignThen(variant, r1))
  /\ UNCHANGED <<variant, store, overlaps, rt, profile>> /\ Frame(i)

\* What a successful assign leaves for the round trip: the boat's list as it
\* was before the request.
rtAfter(r, r2) ==
  IF profile = "seq" /\ r.op = "assign" /\ r2.pc = "done" /\ r2.status = 204
  THEN [b |-> r.b, l |-> r.l, loads |-> pre.boats[r.b].loads]
  ELSE rt

\* Promise.all([datastore.update(load), datastore.update(boat)]): one of the
\* two updates settles. An update of a document that is gone is rejected.
PairUpdate(i) ==
  LET r == reqs[i] IN
  /\ r.op \in {"assign", "unassign"}
  /\ r.pc = "update"
  /\ \E k \in r.pend :
       LET there == IF k = "boat" THEN r.b \in DOMAIN boats ELSE r.l \in DOMAIN loads
       IN \/ /\ there
             /\ NoFault
             /\ IF k = "boat"
                THEN boats' = [boats EXCEPT ![r.b] = r.rb[1]] /\ loads' = loads
                ELSE loads' = [loads EXCEPT ![r.l] = r.rl[1]] /\ boats' = boats
             /\ Set(i, settle(r, k, TRUE, 204))
             /\ rt' = rtAfter(r, settle(r, k, TRUE, 204))
          \/ /\ IF there THEN Fault ELSE NoFault
             /\ UNCHANGED <<boats, loads>>
             /\ Set(i, settle(r, k, FALSE, 204))
             /\ rt' = rt
  /\ UNCHANGED <<variant, users, nextBoat, nextLoad, overlaps, profile>> /\ Frame(i)


(* --------------------- single lookups --------------------------------- *)
notFound(op) == IF op \in BoatOps THEN BOAT_NOT_FOUND ELSE NOT_FOUND

\* updatedBoat that starts the edited boat with an empty list of loads.
updatedBoatNoLoads(op, stored, body) ==
  [owner |-> stored.owner, loads |-> <<>>,
   name |-> IF op = "patchBoat" /\ body.p1 = 0 THEN stored.name ELSE body.p1,
   type |-> IF op = "patchBoat" /\ body.p2 = 0 THEN stored.type ELSE body.p2,
   length |-> IF op = "patchBoat" /\ body.p3 = 0 THEN stored.length ELSE body.p3]

\* updated = {owner: stored.owner, loads: stored.loads, ...boat}; PATCH first
\* takes each property the body lacks from the stored boat.
updatedBoat(op, stored, body) ==
  [owner |-> stored.owner, loads |-> stored.loads,
   name |-> IF op = "patchBoat" /\ body.p1 = 0 THEN stored.name ELSE body.p1,
   type |-> IF op = "patchBoat" /\ body.p2 = 0 THEN stored.type ELSE body.p2,
   length |-> IF op = "patchBoat" /\ body.p3 = 0 THEN stored.length ELSE body.p3]

\* What the handler does with the boat it looked up.
boatFound(v, r) ==
  IF r.rb = <<>>
  THEN handleClientError(r, 404, BOAT_NOT_FOUND)
  ELSE IF ~ownerOk(v, r.rb[1], r.sub)
  THEN handleClientError(r, 403, NOT_OWNER)
  ELSE CASE r.op = "getBoat" -> respond(r, 200, NoMsg)
         [] r.op = "deleteBoat" ->
              \* toNull = boat.loads.map(...); fetch the loads if there are any.
              IF Len(r.rb[1].loads) > 0
              THEN [r EXCEPT !.pc = "fetch"]
              ELSE [r EXCEPT !.pc = "update", !.pend = {"delBoat", "updLoads"},
                             !.rls = EmptyFn]
         [] r.op = "boatLoads" ->
              IF Len(r.rb[1].loads) > 0
              THEN [r EXCEPT !.pc = "fetch"]
              ELSE respond(r, 200, NoMsg)
         [] r.op = "putBoat" ->
              \* updated = {owner: stored.owner, loads: stored.loads, ...boat}
              [r EXCEPT !.rb = <<updatedBoat(r.op, r.rb[1], r.body)>>,
                        !.pc = "update", !.pend = {"boat"}]
         [] r.op = "patchBoat" ->
              \* a property the body lacks is taken from the stored boat
              [r EXCEPT !.rb = <<updatedBoat(r.op, r.rb[1], r.body)>>,
                        !.pc = "update", !.pend = {"boat"}]

\* updated = {carrier: stored.carrier, ...load}: PUT stores the date as a
\* Date; PATCH takes each property the body lacks from the stored load and
\* stores a provided creation_date as it came.
updatedLoad(op, stored, body) ==
  IF op = "putLoad"
  THEN [carrier |-> stored.carrier, volume |-> body.p1, content |-> body.p2,
        creation_date |-> toDate(body.p3)]
  ELSE [carrier |-> stored.carrier,
        volume |-> IF body.p1 = 0 THEN stored.volume ELSE body.p1,
        content |-> IF body.p2 = 0 THEN stored.content ELSE body.p2,
        creation_date |-> IF body.p3 = 0 THEN stored.creation_date ELSE body.p3]

\* What the handler does with the load it looked up.
loadFound(v, r) ==
  IF r.rl = <<>>
  THEN handleClientError(r, 404, NOT_FOUND)
  ELSE CASE r.op = "getLoad" ->
              IF loadReprThrows(r.rl[1]) THEN unhandled(r) ELSE respond(r, 200, NoMsg)
         [] r.op = "deleteLoad" ->
              IF hasCarrier(r.rl[1])
              THEN [r EXCEPT !.pc = "findCarrier"]
              ELSE \* auth: Promise.resolve(undefined); base: datastore.update({})
                   [r EXCEPT !.pc = "update",
                             !.pend = IF v = "auth" THEN {"delLoad"}
                                      ELSE {"delLoad", "updEmpty"}]
         [] r.op = "putLoad" ->
              \* updated = {carrier: stored.carrier, ...load}, the date a Date
              [r EXCEPT !.rl = <<updatedLoad(r.op, r.rl[1], r.body)>>,
                        !.pc = "update", !.pend = {"load"}]
         [] r.op = "patchLoad" ->
              \* a provided creation_date is stored as it came, not as a Date
              [r EXCEPT !.rl = <<updatedLoad(r.op, r.rl[1], r.body)>>,
                        !.pc = "update", !.pend = {"load"}]

\* await findEntity(BOATS, id) / findEntity(LOADS, id) of the handlers that
\* look up one document.
Find(i) ==
  LET r == reqs[i] IN
  /\ r.op \notin {"assign", "unassign"}
  /\ r.pc = "find"
  /\ \E k \in r.pend :
       LET id == IF k = "boat" THEN r.b ELSE r.l IN
       IF id = BadId
       THEN /\ NoFault
            /\ Set(i, handleClientError(r, 404, notFound(r.op)))
       ELSE \/ /\ Fault
               /\ Set(i, handleServerError(r))
            \/ /\ NoFault
               /\ Set(i, IF k = "boat"
                         THEN boatFound(variant, [r EXCEPT !.rb = findEntity(boats, r.b),
                                                           !.pend = {}])
                         ELSE loadFound(variant, [r EXCEPT !.rl = findEntity(loads, r.l),
                                                           !.pend = {}]))
  /\ UNCHANGED <<variant, store, overlaps, rt, profile>> /\ Frame(i)

(* ------------------------ DELETE /boats/b ------------------------------ *)
\* toNullLoads that leaves the carrier of the fetched loads as it is.
toNullLoadsKeep(boat) ==
  [id \in ids(boat.loads) \cap DOMAIN loads |-> loads[id]]

\* datastore.get(toNull): the documents that exist; each gets carrier = null.
toNullLoads(boat) ==
  [id \in ids(boat.loads) \cap DOMAIN loads |->
     [loads[id] EXCEPT !.carrier = NullCarrier]]

\* GET /boats/b/loads and DELETE /boats/b: await datastore.get(keys).
Fetch(i) ==
  LET r == reqs[i] IN
  /\ r.pc = "fetch"
  /\ \/ /\ Fault
        /\ Set(i, handleServerError(r))
     \/ /\ NoFault
        /\ Set(i, IF r.op = "deleteBoat"
                  THEN [r EXCEPT !.rls = toNullLoads(r.rb[1]),
                                 !.pc = "update", !.pend = {"delBoat", "updLoads"}]
                  ELSE IF \E id \in ids(r.rb[1].loads) \cap DOMAIN loads :
                            loadReprThrows(loads[id])
                       THEN unhandled(r)
                       ELSE respond(r, 200, NoMsg))
  /\ UNCHANGED <<variant, store, overlaps, rt, profile>> /\ Frame(i)

\* Promise.all([datastore.delete(boatKey), datastore.update(loads || [])])
DeleteBoatUpdate(i) ==
  LET r == reqs[i] IN
  /\ r.op = "deleteBoat"
  /\ r.pc = "update"
  /\ \E k \in r.pend :
       IF k = "delBoat"
       THEN \/ /\ NoFault
               /\ boats' = Drop(boats, r.b)
               /\ loads' = loads
               /\ Set(i, settle(r, k, TRUE, 204))
            \/ /\ Fault
               /\ UNCHANGED <<boats, loads>>
               /\ Set(i, settle(r, k, FALSE, 204))
       ELSE LET there == DOMAIN r.rls \subseteq DOMAIN loads IN
            \/ /\ there
               /\ NoFault
               /\ loads' = [id \in DOMAIN loads |->
                              IF id \in DOMAIN r.rls THEN r.rls[id] ELSE loads[id]]
               /\ boats' = boats
               /\ Set(i, settle(r, k, TRUE, 204))
            \/ /\ IF there THEN Fault ELSE NoFault
               /\ UNCHANGED <<boats, loads>>
               /\ Set(i, settle(r, k, FALSE, 204))
  /\ UNCHANGED <<variant, users, nextBoat, nextLoad, overlaps, rt, profile>> /\ Frame(i)

(* ------------------------ DELETE /loads/l ------------------------------ *)
\* removeFromCarrier that drops the last entry of the list.
removeLast(boat, id) ==
  [boat EXCEPT !.loads = splice(@, -1)]

\* The carrier boat with the load's entry spliced out of its list.
removeFromCarrier(boat, id) ==
  [boat EXCEPT !.loads = splice(@, findIndex(@, id))]

\* await findEntity(BOATS, load.carrier.id); carrier.loads of a boat that is
\* gone throws a TypeError nothing catches.
DeleteLoadFindCarrier(i) ==
  LET r == reqs[i]
      found == findEntity(boats, r.rl[1].carrier.id)
  IN
  /\ r.op = "deleteLoad"
  /\ r.pc = "findCarrier"
  /\ \/ /\ Fault
        /\ Set(i, handleServerError(r))
     \/ /\ NoFault
        /\ Set(i, IF found = <<>>
                  THEN unhandled(r)
                  ELSE [r EXCEPT !.rb = <<removeFromCarrier(found[1], r.l)>>,
                                 !.pc = "update", !.pend = {"delLoad", "updBoat"}])
  /\ UNCHANGED <<variant, store, overlaps, rt, profile>> /\ Frame(i)

\* Promise.all([datastore.delete(loadKey), asyncAction(carrier)])
DeleteLoadUpdate(i) ==
  LET r == reqs[i] IN
  /\ r.op = "deleteLoad"
  /\ r.pc = "update"
  /\ \E k \in r.pend :
       CASE k = "delLoad" ->
              \/ /\ NoFault
                 /\ loads' = Drop(loads, r.l)
                 /\ boats' = boats
                 /\ Set(i, settle(r, k, TRUE, 204))
              \/ /\ Fault
                 /\ UNCHANGED <<boats, loads>>
                 /\ Set(i, settle(r, k, FALSE, 204))
         [] k = "updBoat" ->
              LET cid == r.rl[1].carrier.id IN
              \/ /\ cid \in DOMAIN boats
                 /\ NoFault
                 /\ boats' = [boats EXCEPT ![cid] = r.rb[1]]
                 /\ loads' = loads
                 /\ Set(i, settle(r, k, TRUE, 204))
              \/ /\ IF cid \in DOMAIN boats THEN Fault ELSE NoFault
                 /\ UNCHANGED <<boats, loads>>
                 /\ Set(i, settle(r, k, FALSE, 204))
         [] k = "updEmpty" ->
              \* datastore.update({}) of the base router: an entity with no
              \* key; whether the client rejects it is the library's
              \* business, so both outcomes are possible. Nothing is written.
              /\ NoFault
              /\ UNCHANGED <<boats, loads>>
              /\ \E ok \in BOOLEAN :
                   Set(i, [settle(r, k, ok, 204) EXCEPT !.writes = r.writes])
  /\ UNCHANGED <<variant, users, nextBoat, nextLoad, overlaps, rt, profile>> /\ Frame(i)


(* ------------------------ POST /boats, POST /loads --------------------- *)
\* newBoat that takes the owner from the body instead of the token.
newBoatNamed(v, r) ==
  [name |-> r.body.p1, type |-> r.body.p2, length |-> r.body.p3,
   owner |-> IF v = "auth" THEN r.body.p1 + 2 ELSE 0, loads |-> <<>>]

\* The boat document POST /boats stores: the props, loads = [] and, in the
\* auth generation, owner = req.user.sub.
newBoat(v, r) ==
  [name |-> r.body.p1, type |-> r.body.p2, length |-> r.body.p3,
   owner |-> IF v = "auth" THEN r.sub ELSE 0, loads |-> <<>>]

\* The load document POST /loads stores: carrier = null, the date a Date.
newLoad(v, r) ==
  [volume |-> r.body.p1, content |-> r.body.p2,
   creation_date |-> toDate(r.body.p3), carrier |-> NullCarrier]

\* await datastore.insert({key, data}): the datastore allocates the id.
Insert(i) ==
  LET r == reqs[i] IN
  /\ r.pc = "insert"
  /\ \/ /\ Fault
        /\ UNCHANGED store
        /\ Set(i, handleServerError(r))
     \/ /\ NoFault
        /\ IF r.op = "postBoat"
           THEN /\ boats' = Put(boats, nextBoat, newBoat(variant, r))
                /\ nextBoat' = nextBoat + 1
                /\ UNCHANGED <<users, loads, nextLoad>>
                /\ Set(i, [respond(r, 201, NoMsg) EXCEPT !.writes = 1])
           ELSE /\ loads' = Put(loads, nextLoad, newLoad(variant, r))
                /\ nextLoad' = nextLoad + 1
                /\ UNCHANGED <<users, boats, nextBoat>>
                /\ Set(i, [respond(r, 201, NoMsg) EXCEPT !.writes = 1])
  /\ UNCHANGED <<variant, overlaps, rt, profile>> /\ Frame(i)

(* --------------- PUT / PATCH of one boat or one load ------------------- *)
\* catch (err) { return handleServerError(res, next, e); }: `e` is not
\* defined there, so the catch block itself throws a ReferenceError.
editFailed(r) == unhandled(r)

\* After the update: the representation is built and sent.
editDone(r) ==
  IF r.op \in {"putLoad", "patchLoad"} /\ loadReprThrows(r.rl[1])
  THEN [unhandled(r) EXCEPT !.writes = 1]
  ELSE [respond(r, 200, NoMsg) EXCEPT !.writes = 1]

\* await datastore.update({key, data: updated})
Edit(i) ==
  LET r == reqs[i]
      isBoat == r.op \in {"putBoat", "patchBoat"}
      there == IF isBoat THEN r.b \in DOMAIN boats ELSE r.l \in DOMAIN loads
  IN
  /\ r.op \in {"putBoat", "patchBoat", "putLoad", "patchLoad"}
  /\ r.pc = "update"
  /\ \/ /\ there
        /\ NoFault
        /\ IF isBoat
           THEN boats' = [boats EXCEPT ![r.b] = r.rb[1]] /\ loads' = loads
           ELSE loads' = [loads EXCEPT ![r.l] = r.rl[1]] /\ boats' = boats
        /\ Set(i, editDone(r))
     \/ /\ IF there THEN Fault ELSE NoFault
        /\ UNCHANGED <<boats, loads>>
        /\ Set(i, editFailed(r))
  /\ UNCHANGED <<variant, users, nextBoat, nextLoad, overlaps, rt, profile>> /\ Frame(i)

(* ------------------------------ lists ---------------------------------- *)
\* GET /boats, GET /loads, GET /users: await pagedQuery / runQuery. The auth
\* GET /loads awaits a second query for the total before it answers.
Query(i) ==
  LET r == reqs[i] IN
  /\ r.pc \in {"query", "total"}
  /\ \/ /\ Fault
        /\ Set(i, handleServerError(r))
     \/ /\ NoFault
        /\ Set(i, IF r.op = "listLoads" /\ variant = "auth" /\ r.pc = "query"
                  THEN [r EXCEPT !.pc = "total"]
                  ELSE IF r.op = "listLoads"
                          /\ \E id \in DOMAIN loads : loadReprThrows(loads[id])
                       THEN unhandled(r)
                       ELSE respond(r, 200, NoMsg))
  /\ UNCHANGED <<variant, store, overlaps, rt, profile>> /\ Frame(i)

\* The number of entities a list returns per page.
PageLimit == 5

MORE_RESULTS_AFTER_LIMIT == "MORE_RESULTS_AFTER_LIMIT"
NO_MORE_RESULTS == "NO_MORE_RESULTS"

\* pagedQuery: query.limit(limit), query.start(cursor) when a cursor is
\* given, datastore.runQuery(query). The outcomes the datastore can give: the
\* entities after the cursor up to the limit, the cursor after them, and
\* moreResults. A page shorter than the limit ends the results; after a
\* full page the datastore reports MORE_RESULTS_AFTER_LIMIT ("there may be
\* more results after the limit"), which it may also do when none is left.
pagedQuery(coll, limit, cursor) ==
  LET rest == SubSeq(coll, cursor + 1, Len(coll))
      items == SubSeq(rest, 1, Min(limit, Len(rest)))
  IN {[items |-> items, endCursor |-> cursor + Len(items), moreResults |-> m] :
        m \in IF Len(items) < limit THEN {NO_MORE_RESULTS}
              ELSE IF Len(rest) > limit THEN {MORE_RESULTS_AFTER_LIMIT}
              ELSE {MORE_RESULTS_AFTER_LIMIT, NO_MORE_RESULTS}}

\* The body of a list response: the items, the `next` link when moreResults
\* is MORE_RESULTS_AFTER_LIMIT (with the cursor it carries), and the total
\* in the auth GET /loads.
listBody(v, op, coll, res) ==
  [items |-> res.items,
   next |-> res.moreResults = MORE_RESULTS_AFTER_LIMIT,
   cursor |-> res.endCursor,
   total |-> IF v = "auth" /\ op = "listLoads" THEN Len(coll) ELSE NoTotal]

\* The client requests the first page, or the page its last `next` link
\* points to, while the store does not change.
ListPage ==
  /\ walk.more
  /\ \E res \in pagedQuery(walk.coll, PageLimit, walk.cursor) :
       LET body == listBody(variant, walk.op, walk.coll, res) IN
       walk' = [walk EXCEPT !.pages = Append(@, body),
                            !.cursor = body.cursor,
                            !.more = body.next]
  /\ UNCHANGED <<variant, store, reqs, faults, overlaps, pre, rt, profile>>

(* ------------------------------ GET /user ------------------------------ *)
\* await transaction.run(); const [user] = await transaction.get(key)
RegisterGet(i) ==
  LET r == reqs[i] IN
  /\ r.pc = "txget"
  /\ \/ /\ Fault
        /\ Set(i, [r EXCEPT !.pc = "catch"])
     \/ /\ NoFault
        /\ Set(i, IF r.sub \in users
                  THEN [r EXCEPT !.pc = "rollback"]
                  ELSE [r EXCEPT !.pc = "commit"])
  /\ UNCHANGED <<variant, store, overlaps, rt, profile>> /\ Frame(i)

\* RegisterCommit without the transaction: the save is committed whatever
\* was written since the get.
RegisterCommitBlind(i) ==
  LET r == reqs[i] IN
  /\ r.pc = "commit"
  /\ \/ /\ NoFault
        /\ users' = users \cup {r.sub}
        /\ Set(i, [respond(r, 200, NoMsg) EXCEPT !.writes = 1])
     \/ /\ Fault
        /\ users' = users
        /\ Set(i, [r EXCEPT !.pc = "catch"])
  /\ UNCHANGED <<variant, boats, loads, nextBoat, nextLoad, overlaps, rt, profile>> /\ Frame(i)

\* transaction.save(userEntity); await transaction.commit(). The commit of a
\* transaction whose key was written since it was read is aborted.
RegisterCommit(i) ==
  LET r == reqs[i] IN
  /\ r.pc = "commit"
  /\ \/ /\ r.sub \notin users
        /\ NoFault
        /\ users' = users \cup {r.sub}
        /\ Set(i, [respond(r, 200, NoMsg) EXCEPT !.writes = 1])
     \/ /\ IF r.sub \notin users THEN Fault ELSE NoFault
        /\ users' = users
        /\ Set(i, [r EXCEPT !.pc = "catch"])
  /\ UNCHANGED <<variant, boats, loads, nextBoat, nextLoad, overlaps, rt, profile>> /\ Frame(i)

\* await transaction.rollback(): in the try block (the user exists) a failure
\* goes to the catch block; in the catch block nothing catches it.
RegisterRollback(i) ==
  LET r == reqs[i] IN
  /\ r.pc \in {"rollback", "catch"}
  /\ \/ /\ NoFault
        /\ Set(i, respond(r, 200, NoMsg))
     \/ /\ Fault
        /\ Set(i, IF r.pc = "rollback" THEN [r EXCEPT !.pc = "catch"] ELSE unhandled(r))
  /\ UNCHANGED <<variant, store, overlaps, rt, profile>> /\ Frame(i)

(* ------------------------------ requests ------------------------------- *)
request(op, sub, b, l, body, acc) ==
  [Idle EXCEPT !.op = op, !.sub = sub, !.b = b, !.l = l, !.body = body, !.acc = acc]

Wide == profile = "http"

\* The "own" profile interleaves the requests of several subjects.
Several == profile = "own"

Tokens ==
  IF Wide THEN Subjects \cup {NoToken} ELSE IF Several THEN Subjects ELSE 1..NarrowSubjects

boatsLimit == IF Several THEN OwnBoats ELSE MaxBoats

BoatParams == IF Wide THEN BoatIds \cup {BadId} ELSE BoatIds

\* The "edit" profile sends edits whose values differ from the posted ones.
Rich == profile = "edit"

loadsLimit ==
  IF Wide \/ Rich THEN HttpLoads ELSE IF profile \in {"conc", "own"} THEN ConcLoads ELSE MaxLoads

LoadParams == IF Wide THEN 1..HttpLoads \cup {BadId} ELSE 1..loadsLimit

Accepts == IF Wide THEN BOOLEAN ELSE {TRUE}

\* The bodies requests carry. Only the "http" profile sends incomplete ones,
\* only the "edit" profile edits with values other than the posted ones.
BoatPostBodies ==
  {[p1 |-> 1, p2 |-> 1, p3 |-> 1]} \cup (IF Wide THEN {[p1 |-> 0, p2 |-> 1, p3 |-> 1]} ELSE {})

BoatPutBodies ==
  IF Rich THEN {[p1 |-> 2, p2 |-> 2, p3 |-> 2]}
  ELSE {[p1 |-> 1, p2 |-> 1, p3 |-> 1]}
       \cup (IF Wide THEN {[p1 |-> 1, p2 |-> 0, p3 |-> 1]} ELSE {})

BoatPatchBodies ==
  IF Rich THEN {[p1 |-> 2, p2 |-> 0, p3 |-> 0], [p1 |-> 0, p2 |-> 3, p3 |-> 0]}
  ELSE {[p1 |-> 1, p2 |-> 0, p3 |-> 0]}

LoadPostBodies ==
  {[p1 |-> 1, p2 |-> 1, p3 |-> 1]} \cup (IF Wide THEN {[p1 |-> 1, p2 |-> 1, p3 |-> 0]} ELSE {})

LoadPutBodies ==
  IF Rich THEN {[p1 |-> 2, p2 |-> 2, p3 |-> 2]}
  ELSE {[p1 |-> 1, p2 |-> 1, p3 |-> 1]}
       \cup (IF Wide THEN {[p1 |-> 0, p2 |-> 1, p3 |-> 1]} ELSE {})

LoadPatchBodies ==
  IF Rich THEN {[p1 |-> 2, p2 |-> 0, p3 |-> 0], [p1 |-> 0, p2 |-> 0, p3 |-> 3]}
  ELSE {[p1 |-> 1, p2 |-> 0, p3 |-> 0]}

\* The requests a client can send.
Requests ==
       {request("postBoat", s, 0, 0, bd, a) : s \in Tokens, bd \in BoatPostBodies, a \in Accepts}
  \cup {request(op, s, b, 0, NoBody, a) :
          op \in {"getBoat", "deleteBoat", "boatLoads"}, s \in Tokens, b \in BoatParams,
          a \in Accepts}
  \cup {request(op, s, b, l, NoBody, a) :
          op \in {"assign", "unassign"}, s \in Tokens, b \in BoatParams, l \in LoadParams,
          a \in Accepts}
  \cup {request("putBoat", s, b, 0, bd, a) :
          s \in Tokens, b \in BoatParams, bd \in BoatPutBodies, a \in Accepts}
  \cup {request("patchBoat", s, b, 0, bd, a) :
          s \in Tokens, b \in BoatParams, bd \in BoatPatchBodies, a \in Accepts}
  \cup {request(op, s, 0, 0, NoBody, a) :
          op \in {"listBoats"}, s \in Tokens, a \in Accepts}
  \cup {request("postLoad", NoToken, 0, 0, bd, a) : bd \in LoadPostBodies, a \in Accepts}
  \cup {request(op, NoToken, 0, l, NoBody, a) :
          op \in {"getLoad", "deleteLoad"}, l \in LoadParams, a \in Accepts}
  \cup {request("putLoad", NoToken, 0, l, bd, a) :
          l \in LoadParams, bd \in LoadPutBodies, a \in Accepts}
  \cup {request("patchLoad", NoToken, 0, l, bd, a) :
          l \in LoadParams, bd \in LoadPatchBodies, a \in Accepts}
  \cup {request(op, NoToken, 0, 0, NoBody, TRUE) : op \in {"listLoads", "listUsers"}}
  \cup {request("register", s, 0, 0, NoBody, TRUE) : s \in Tokens}

\* Requests in flight that will allocate an id of the kind.
posting(op) == Cardinality({j \in Slots : inFlight(reqs[j]) /\ reqs[j].op = op})

\* The request follows up on the assign that has just been answered 204: it
\* unassigns the same pair, deletes its boat or deletes its load.
followsAssign(r) ==
  /\ rt # NoRt
  /\ \E j \in Slots : /\ reqs[j].pc = "done" /\ reqs[j].op = "assign"
                      /\ reqs[j].status = 204
  /\ \/ r.op = "unassign" /\ r.b = rt.b /\ r.l = rt.l
     \/ r.op = "deleteBoat" /\ r.b = rt.b
     \/ r.op = "deleteLoad" /\ r.l = rt.l

\* A request arrives and runs up to its first await. Slots whose request is
\* settled are cleared. In a sequential run no other request is in flight.
Start(i) ==
  /\ free(reqs[i])
  /\ \A j \in 1..(i - 1) : inFlight(reqs[j])
  /\ Sequential => \A j \in Slots : free(reqs[j])
  /\ (\E j \in Slots : inFlight(reqs[j])) => overlaps < MaxOverlaps
  /\ \E r \in Requests :
       /\ r.op \in Routes(variant)
       /\ r.op = "postBoat" => nextBoat + posting("postBoat") <= boatsLimit
       /\ r.op = "postLoad" => nextLoad + posting("postLoad") <= loadsLimit
       /\ reqs' = [j \in Slots |->
                     IF j = i THEN dispatch(variant, r)
                     ELSE IF free(reqs[j]) THEN Idle ELSE reqs[j]]
       /\ rt' = IF followsAssign(r) THEN rt ELSE NoRt
  /\ pre' = IF Sequential /\ inFlight(reqs'[i])
            THEN [users |-> users, boats |-> boats, loads |-> loads] ELSE NoPre
  /\ overlaps' = IF \E j \in Slots : inFlight(reqs[j]) THEN overlaps + 1 ELSE overlaps
  /\ UNCHANGED <<variant, store, faults, profile, walk>>

Next ==
  \E i \in Slots :
    \/ Start(i)
    \/ CheckRegistered(i)
    \/ PairFind(i)
    \/ PairUpdate(i)
    \/ Find(i)
    \/ Fetch(i)
    \/ DeleteBoatUpdate(i)
    \/ DeleteLoadFindCarrier(i)
    \/ DeleteLoadUpdate(i)
    \/ Insert(i)
    \/ Edit(i)
    \/ Query(i)
    \/ RegisterGet(i)
    \/ RegisterCommit(i)
    \/ RegisterRollback(i)

\* Requests interleave at their awaits.
Spec == Init /\ [][Next]_vars

\* One request at a time.
SpecSeq == InitSeq /\ [][Next]_vars

\* One request at a time, any request a client can send.
SpecHttp == InitHttp /\ [][Next]_vars

\* One request at a time, edits that change the stored values.
SpecEdit == InitEdit /\ [][Next]_vars

\* Requests of several subjects interleave at their awaits.
SpecOwn == InitOwn /\ [][Next]_vars

\* The next datastore call request i awaits settles.
Step(i) ==
  \/ CheckRegistered(i)
  \/ PairFind(i)
  \/ PairUpdate(i)
  \/ Find(i)
  \/ Fetch(i)
  \/ DeleteBoatUpdate(i)
  \/ DeleteLoadFindCarrier(i)
  \/ DeleteLoadUpdate(i)
  \/ Insert(i)
  \/ Edit(i)
  \/ Query(i)
  \/ RegisterGet(i)
  \/ RegisterCommit(i)
  \/ RegisterRollback(i)

\* One request at a time, any request a client can send; every datastore
\* call settles in the end, by fulfilling or by rejecting, so a request that
\* awaits one takes its next step. Nothing obliges a client to send.
SpecLive == InitHttp /\ [][Next]_vars /\ \A i \in Slots : WF_vars(Step(i))

NextPages == ListPage

\* A client walks through a list of up to MaxItems entities.
SpecPages == InitPages /\ [][NextPages]_vars


(* ====================================================================== *)
(*                               claims                                   *)
(* ====================================================================== *)
Settled == \A i \in Slots : free(reqs[i])

\* The step in which request i is answered for good (or left unanswered).
Completes(i) == inFlight(reqs[i]) /\ free(reqs'[i])

Count(s, x) == Cardinality({k \in 1..Len(s) : s[k] = x})

\* The two sides of the relationship agree on load l and boat b.
PairConsistent(bs, ls, b, l) ==
  (l \in DOMAIN ls /\ ls[l].carrier.id = b) <=> (b \in DOMAIN bs /\ l \in ids(bs[b].loads))

Consistent ==
  \A l \in LoadIds : \A b \in BoatIds : PairConsistent(boats, loads, b, l)

\* C1: bidirectional consistency. After any sequence of completed,
\* non-overlapping requests none of whose datastore calls failed, a load L
\* names boat B as its carrier if and only if B exists and B.loads lists L.
C1_Consistency == (Settled /\ faults = 0) => Consistent

\* A boat carries two loads, after a run without failure.
C1_Witness ==
  /\ Settled /\ faults = 0
  /\ \E b \in DOMAIN boats : Len(boats[b].loads) = 2
  /\ \E i \in Slots : reqs[i].op = "assign" /\ reqs[i].status = 204

\* The case of C2: an assign, by a registered requester who accepts JSON and
\* whose lookups succeed, of a load that has a carrier, to a boat that exists.
C2_Case(i) ==
  LET r == reqs[i] IN
  /\ r.op = "assign"
  /\ Completes(i)
  /\ faults' = faults
  /\ r.acc
  /\ r.sub \in pre.users
  /\ r.b \in DOMAIN pre.boats
  /\ r.l \in DOMAIN pre.loads
  /\ hasCarrier(pre.loads[r.l])

\* C2 as stated: assigning a load that is already assigned is answered 403
\* "The load is already assigned", whoever the requester is.
C2_Original ==
  [][\A i \in Slots : C2_Case(i) =>
       /\ reqs'[i].status = 403
       /\ reqs'[i].msg = LOAD_ALREADY_ASSIGNED]_vars

\* C2 as amended: it is answered 403; the message is "The load is already
\* assigned" when the requester owns the boat (always, in the base
\* generation), and the not-owner message when it does not.
C2_Amended ==
  [][\A i \in Slots : C2_Case(i) =>
       /\ reqs'[i].status = 403
       /\ reqs'[i].msg = IF ownerOk(variant, pre.boats[reqs[i].b], reqs[i].sub)
                         THEN LOAD_ALREADY_ASSIGNED ELSE NOT_OWNER]_vars

C2_Witness ==
  \E i \in Slots :
    /\ reqs[i].pc = "done" /\ reqs[i].op = "assign"
    /\ reqs[i].status = 403 /\ reqs[i].msg = LOAD_ALREADY_ASSIGNED
    /\ \E l \in DOMAIN loads : hasCarrier(loads[l])

\* The case of C3: an unassign answered 204 that follows, with no request in
\* between, an assign of the same load to the same boat answered 204.
C3_Case(i) ==
  LET r == reqs[i] IN
  /\ r.op = "unassign"
  /\ Completes(i)
  /\ reqs'[i].status = 204
  /\ rt # NoRt /\ rt.b = r.b /\ rt.l = r.l

C4_DeleteBoatCascade ==
  [][\A i \in Slots :
       LET r == reqs[i] IN
       (r.op = "deleteBoat" /\ Completes(i) /\ reqs'[i].status = 204) =>
         LET listed == ids(pre.boats[r.b].loads) \cap DOMAIN pre.loads IN
         /\ r.b \notin DOMAIN boats'
         /\ DOMAIN boats' = DOMAIN pre.boats \ {r.b}
         /\ \A b \in DOMAIN boats' : boats'[b] = pre.boats[b]
         /\ DOMAIN loads' = DOMAIN pre.loads
         /\ \A l \in listed :
              loads'[l] = [pre.loads[l] EXCEPT !.carrier = NullCarrier]
         /\ \A l \in DOMAIN loads' \ listed : loads'[l] = pre.loads[l]]_vars

\* The boat of the assign just made is deleted: its load is left without a
\* carrier.
C4_Witness ==
  /\ rt # NoRt
  /\ \E i \in Slots : /\ reqs[i].pc = "done" /\ reqs[i].op = "deleteBoat"
                      /\ reqs[i].status = 204
  /\ rt.b \notin DOMAIN boats
  /\ rt.l \in DOMAIN loads
  /\ loads[rt.l].carrier = NullCarrier
  /\ Len(rt.loads) >= 1

\* C5: delete-load cascade. After DELETE /loads/L, answered 204, of a load
\* that names boat B as its carrier and that B.loads holds, exactly one entry
\* L is gone from B.loads, the other entries keep their value and order, and
\* the load is gone.
C5_DeleteLoadCascade ==
  [][\A i \in Slots :
       LET r == reqs[i] IN
       (/\ r.op = "deleteLoad" /\ Completes(i) /\ reqs'[i].status = 204
        /\ hasCarrier(pre.loads[r.l])
        /\ pre.loads[r.l].carrier.id \in DOMAIN pre.boats
        /\ r.l \in ids(pre.boats[pre.loads[r.l].carrier.id].loads)) =>
         LET B == pre.loads[r.l].carrier.id
             old == pre.boats[B].loads
             new == boats'[B].loads
         IN
         /\ r.l \notin DOMAIN loads'
         /\ \A l \in DOMAIN loads' : loads'[l] = pre.loads[l]
         /\ DOMAIN loads' = DOMAIN pre.loads \ {r.l}
         /\ DOMAIN boats' = DOMAIN pre.boats
         /\ \A b \in DOMAIN boats' \ {B} : boats'[b] = pre.boats[b]
         /\ boats'[B] = [pre.boats[B] EXCEPT !.loads = new]
         /\ \E k \in 1..Len(old) :
              /\ old[k] = r.l
              /\ new = SubSeq(old, 1, k - 1) \o SubSeq(old, k + 1, Len(old))]_vars

\* The load of the assign just made is deleted from a boat that carries
\* another load: the boat's list is back to what it was.
C5_Witness ==
  /\ rt # NoRt
  /\ \E i \in Slots : /\ reqs[i].pc = "done" /\ reqs[i].op = "deleteLoad"
                      /\ reqs[i].status = 204
  /\ rt.l \notin DOMAIN loads
  /\ rt.b \in DOMAIN boats
  /\ Len(rt.loads) >= 1
  /\ boats[rt.b].loads = rt.loads

\* C6: the double-assignment race. The two writes of an assign are blind: the
\* load write stores carrier = this boat whatever carrier the store holds by
\* then, the boat write stores this request's copy of the list with the load
\* pushed, and an assign whose two writes succeed is answered 204. Two
\* overlapping assigns of one unassigned load to two boats are thus both
\* answered 204, with the load in both lists and one boat as its carrier.
C6_BlindWrites ==
  [][\A i \in Slots :
       LET r == reqs[i] IN
       (r.op = "assign" /\ r.pc = "update") =>
         /\ reqs'[i].writes = r.writes + 1 =>
              \A k \in r.pend \ reqs'[i].pend :
                /\ k = "load" => loads'[r.l].carrier.id = r.b
                /\ k = "boat" => r.l \in ids(boats'[r.b].loads)
         /\ (free(reqs'[i]) /\ reqs'[i].writes = 2) => reqs'[i].status = 204]_vars

\* Both assigns answered 204, no call failed, the load in the lists of two
\* boats and its carrier one of them.
C6_Race ==
  /\ faults = 0
  /\ \A i \in 1..2 : /\ reqs[i].pc = "done" /\ reqs[i].op = "assign"
                     /\ reqs[i].status = 204
  /\ \E l \in DOMAIN loads : \E b1, b2 \in DOMAIN boats :
       /\ b1 # b2
       /\ l \in ids(boats[b1].loads)
       /\ l \in ids(boats[b2].loads)
       /\ loads[l].carrier.id \in {b1, b2}

\* The operations on a boat that check its owner.
OwnerOps == {"getBoat", "putBoat", "patchBoat", "deleteBoat", "assign", "unassign"}

\* A request on an existing boat, by a subject that is not its owner, is
\* answered.
C7_NotOwner(i) ==
  LET r == reqs[i] IN
  /\ variant = "auth"
  /\ r.op \in OwnerOps
  /\ Completes(i)
  /\ r.sub # NoToken
  /\ r.b \in DOMAIN pre.boats
  /\ pre.boats[r.b].owner # r.sub

C7_Refused(i) ==
  /\ reqs'[i].status = 403
  /\ reqs'[i].msg = NOT_OWNER

C7_NothingWritten(i) ==
  /\ reqs'[i].writes = 0
  /\ boats' = pre.boats
  /\ loads' = pre.loads

\* C7 as stated: every operation on boat B by a subject other than B.owner is
\* answered 403 with the not-owner message and writes nothing.
C7_Original ==
  [][\A i \in Slots : (C7_NotOwner(i) /\ faults' = faults) =>
       C7_Refused(i) /\ C7_NothingWritten(i)]_vars

\* C7 as amended: every operation on boat B by a subject other than B.owner
\* writes nothing; it is answered 403 with the not-owner message when the
\* subject is registered, the request accepts JSON, the body of a PUT is
\* complete, the load of an assign or unassign exists and no lookup fails.
C7_Amended ==
  [][\A i \in Slots : C7_NotOwner(i) =>
       LET r == reqs[i] IN
       /\ C7_NothingWritten(i)
       /\ (/\ faults' = faults
           /\ r.sub \in pre.users
           /\ r.acc
           /\ r.op = "putBoat" => ~isBadRequest(getBoatProps(r.body))
           /\ r.op \in {"assign", "unassign"} => r.l \in DOMAIN pre.loads)
          => C7_Refused(i)]_vars

C7_Witness ==
  \E i \in Slots :
    /\ reqs[i].pc = "done" /\ reqs[i].op = "deleteBoat"
    /\ reqs[i].status = 403 /\ reqs[i].msg = NOT_OWNER
    /\ reqs[i].writes = 0
    /\ \E b \in DOMAIN boats : Len(boats[b].loads) >= 1

\* An unassign of an existing load from an existing boat that is not the
\* load's carrier is answered.
C8_Case(i) ==
  LET r == reqs[i] IN
  /\ r.op = "unassign"
  /\ Completes(i)
  /\ r.b \in DOMAIN pre.boats
  /\ r.l \in DOMAIN pre.loads
  /\ pre.loads[r.l].carrier.id # r.b

C8_Refused(i) ==
  /\ reqs'[i].status = 403
  /\ reqs'[i].msg = LOAD_ELSEWHERE

C8_NothingWritten(i) ==
  /\ reqs'[i].writes = 0
  /\ boats' = pre.boats
  /\ loads' = pre.loads

\* C8 as stated: unassigning a load whose carrier is null or another boat is
\* answered 403 with the load-elsewhere message, and nothing is written.
C8_Original ==
  [][\A i \in Slots : (C8_Case(i) /\ faults' = faults) =>
       C8_Refused(i) /\ C8_NothingWritten(i)]_vars

\* C8 as amended: nothing is written; the answer is 403 with the
\* load-elsewhere message when the request passed the earlier checks (in the
\* generation with owners: a registered requester who accepts JSON and owns
\* the boat) and no lookup failed.
C8_Amended ==
  [][\A i \in Slots : C8_Case(i) =>
       LET r == reqs[i] IN
       /\ C8_NothingWritten(i)
       /\ (/\ faults' = faults
           /\ variant = "auth" =>
                (r.sub \in pre.users /\ r.acc /\ pre.boats[r.b].owner = r.sub))
          => C8_Refused(i)]_vars

C8_Witness ==
  \E i \in Slots :
    /\ reqs[i].pc = "done" /\ reqs[i].op = "unassign"
    /\ reqs[i].status = 403 /\ reqs[i].msg = LOAD_ELSEWHERE
    /\ reqs[i].writes = 0
    /\ \E l \in DOMAIN loads : hasCarrier(loads[l])

\* C9: every datastore failure in a handler of the boats and loads routers is
\* answered 500 with the generic body.
C9_ServerError ==
  [][\A i \in Slots :
       LET r == reqs[i] IN
       (/\ r.op \in BoatOps \cup LoadOps
        /\ inFlight(r)
        /\ reqs'[i] # r
        /\ faults' = faults + 1) =>
         /\ reqs'[i].status = ServerErrorStatus
         /\ reqs'[i].msg = SERVER_ERROR]_vars

\* An assign or unassign is answered after exactly one of its two writes
\* succeeded.
C10_Case(i) ==
  LET r == reqs[i] IN
  /\ r.op \in {"assign", "unassign"}
  /\ r.pc = "update"
  /\ Completes(i)
  /\ reqs'[i].writes = 1

\* The answer is 500, no write follows, and of the two documents exactly the
\* one whose write succeeded is stored.
C10_OneWrite(i) ==
  LET r == reqs[i] IN
  /\ reqs'[i].status = ServerErrorStatus
  /\ reqs'[i].pend = {}
  /\ \/ loads'[r.l] = r.rl[1] /\ boats' = pre.boats
                              /\ loads' = [pre.loads EXCEPT ![r.l] = r.rl[1]]
     \/ boats'[r.b] = r.rb[1] /\ loads' = pre.loads
                              /\ boats' = [pre.boats EXCEPT ![r.b] = r.rb[1]]

\* The boat's list held the load as often as the load named the boat.
C10_TidyBefore(i) ==
  LET r == reqs[i] IN
  Count(pre.boats[r.b].loads, r.l) = IF pre.loads[r.l].carrier.id = r.b THEN 1 ELSE 0

\* C10 as stated: when one of the two writes of an assign or unassign fails
\* and the other succeeds, the answer is 500, no further write is issued and
\* the store is left with the one successful write: the pair is inconsistent.
C10_Original ==
  [][\A i \in Slots : C10_Case(i) =>
       /\ C10_OneWrite(i)
       /\ ~PairConsistent(boats', loads', reqs[i].b, reqs[i].l)]_vars

\* C10 as amended: the answer is 500, no further write is issued and the store
\* is left with the one successful write; the pair is then inconsistent
\* whenever, before the request, the boat's list held the load once if the
\* load named the boat and not at all if it did not.
C10_Amended ==
  [][\A i \in Slots : C10_Case(i) =>
       /\ C10_OneWrite(i)
       /\ C10_TidyBefore(i) =>
            ~PairConsistent(boats', loads', reqs[i].b, reqs[i].l)]_vars

\* An assign answered 500 after one write: the first failure of the run, which
\* leaves the load with a carrier that does not list it, or the reverse.
C10_Witness ==
  /\ faults = 1
  /\ \E i \in Slots : /\ reqs[i].pc = "done" /\ reqs[i].op = "assign"
                      /\ reqs[i].status = ServerErrorStatus
                      /\ reqs[i].writes = 1
  /\ ~Consistent


(* ---------------------------------------------------------------------- *)
\* The value of one field after an edit that is answered 200: PUT takes the
\* body value, PATCH the body value when the body provides one and the
\* stored value otherwise.
C11_Field(op, given, kept) ==
  IF op \in {"patchBoat", "patchLoad"} /\ given = 0 THEN kept ELSE given

C11_Edits(i) ==
  /\ Completes(i)
  /\ reqs[i].op \in {"putBoat", "patchBoat", "putLoad", "patchLoad"}
  /\ reqs'[i].status = 200

\* C11: a successful PUT or PATCH on /boats/B leaves B.owner and B.loads as
\* stored, one on /loads/L leaves L.carrier as stored; PUT sets the three
\* own fields to the body values, PATCH sets each provided field and keeps
\* the stored value of each field that is not provided.
C11_EditFrame ==
  [][\A i \in Slots : C11_Edits(i) =>
       LET r == reqs[i] IN
       IF r.op \in {"putBoat", "patchBoat"}
       THEN /\ r.b \in DOMAIN pre.boats /\ r.b \in DOMAIN boats'
            /\ boats'[r.b].owner = pre.boats[r.b].owner
            /\ boats'[r.b].loads = pre.boats[r.b].loads
            /\ boats'[r.b].name = C11_Field(r.op, r.body.p1, pre.boats[r.b].name)
            /\ boats'[r.b].type = C11_Field(r.op, r.body.p2, pre.boats[r.b].type)
            /\ boats'[r.b].length = C11_Field(r.op, r.body.p3, pre.boats[r.b].length)
       ELSE /\ r.l \in DOMAIN pre.loads /\ r.l \in DOMAIN loads'
            /\ loads'[r.l].carrier = pre.loads[r.l].carrier
            /\ loads'[r.l].volume = C11_Field(r.op, r.body.p1, pre.loads[r.l].volume)
            /\ loads'[r.l].content = C11_Field(r.op, r.body.p2, pre.loads[r.l].content)
            /\ loads'[r.l].creation_date \in
                 {C11_Field(r.op, r.body.p3, pre.loads[r.l].creation_date),
                  C11_Field(r.op, toDate(r.body.p3), pre.loads[r.l].creation_date)}
            /\ r.op = "putLoad" => loads'[r.l].creation_date = toDate(r.body.p3)]_vars

\* A PATCH answered 200 on a boat that carries a load, after a PUT and
\* another PATCH: one field from each body, the third from the PUT.
C11_Witness ==
  /\ \E i \in Slots : /\ reqs[i].pc = "done" /\ reqs[i].op = "patchBoat"
                       /\ reqs[i].status = 200
  /\ \E b \in DOMAIN boats : /\ boats[b].name = 2 /\ boats[b].type = 3
                              /\ boats[b].length = 2 /\ Len(boats[b].loads) = 1
  /\ \E l \in DOMAIN loads : /\ hasCarrier(loads[l]) /\ loads[l].volume = 2
                              /\ loads[l].creation_date = toDate(2)


(* ---------------------------------------------------------------------- *)
\* The step stores boat b for the first time: the insert of a POST /boats.
C12_Created(b, s) ==
  \E i \in Slots : /\ reqs[i].op = "postBoat" /\ reqs[i].pc = "insert"
                    /\ reqs'[i].pc = "done" /\ reqs'[i].status = 201
                    /\ reqs[i].sub = s

\* C12: in the auth generation the stored owner of a boat is the subject
\* whose POST created it: the insert stores the poster's subject and no
\* later step, of any request of any subject, interleaved or not, changes
\* it while the boat exists (ids are never allocated twice).
C12_OwnerKept ==
  [][variant = "auth" =>
       \A b \in DOMAIN boats' :
         IF b \in DOMAIN boats THEN boats'[b].owner = boats[b].owner
         ELSE C12_Created(b, boats'[b].owner) /\ boats'[b].owner \in users]_vars

\* Two overlapping edits of one boat have been answered: the owner's with
\* 200, the other subject's with 403.
C12_Witness ==
  /\ variant = "auth"
  /\ \E i, j \in Slots :
       /\ reqs[i].pc = "done" /\ reqs[j].pc = "done"
       /\ reqs[i].op \in {"putBoat", "patchBoat"} /\ reqs[i].status = 200
       /\ reqs[j].op \in {"putBoat", "patchBoat", "deleteBoat"}
       /\ reqs[j].status = 403 /\ reqs[j].msg = NOT_OWNER
  /\ \E b \in DOMAIN boats : boats[b].owner \in users


(* ---------------------------------------------------------------------- *)
\* A GET /user whose commit created the Users entity.
C13_Created(r) == r.op = "register" /\ r.pc = "done" /\ r.writes = 1

\* The step in which a GET /user commits its creation of the entity.
C13_Creates(i) ==
  reqs[i].op = "register" /\ ~C13_Created(reqs[i]) /\ C13_Created(reqs'[i])

\* The Users entity of S is created by the commit of a GET /user of S that
\* finds none stored, by nothing else, and is never removed: of the requests
\* of one subject at most one commits a creation.
C13_OneCreation ==
  /\ users \subseteq users'
  /\ \A i \in Slots :
       C13_Creates(i) =>
         /\ reqs[i].pc = "commit" /\ reqs[i].sub \notin users
         /\ users' = users \cup {reqs[i].sub}
  /\ users' # users => \E i \in Slots : C13_Creates(i)

C14_Carried(i) ==
  /\ reqs[i].op \in BoatOps \cup LoadOps
  /\ reqs[i].pc \notin {"idle", "done", "hung", "registered"}
  /\ reqs'[i] # reqs[i]

\* C14: a boat or load operation is carried out, reading or writing boat or
\* load documents, only if a Users entity exists for the subject that
\* requests it; the request of any other subject leaves the store unchanged
\* and is answered 403 (unless the lookup of the Users entity itself fails).
C14_RegistrationGate ==
  [][\A i \in Slots :
       /\ C14_Carried(i) => reqs[i].sub \in users
       /\ Completes(i) /\ reqs[i].op \in BoatOps \cup LoadOps
            /\ reqs[i].sub # NoToken /\ reqs[i].sub \notin users
          => /\ reqs'[i].status = 403 \/ faults' # faults
             /\ store' = store]_vars


(* ---------------------------------------------------------------------- *)
RECURSIVE C15_Items(_)
\* The items of the pages, in the order received.
C15_Items(pages) ==
  IF pages = <<>> THEN <<>> ELSE pages[1].items \o C15_Items(Tail(pages))

\* The batches are pairwise disjoint; once the last page has no `next`
\* link their union is the collection, and their item count is the total.
C15_Traversal ==
  LET got == C15_Items(walk.pages) IN
  /\ \A j, k \in 1..Len(got) : got[j] = got[k] => j = k
  /\ \A k \in 1..Len(walk.pages) :
       walk.pages[k].total # NoTotal => walk.pages[k].total = Len(walk.coll)
  /\ walk.pages # <<>> /\ ~walk.more =>
       /\ {got[k] : k \in 1..Len(got)} = {walk.coll[k] : k \in 1..Len(walk.coll)}
       /\ Len(got) = Len(walk.coll)

\* C15: following `next` with a limit of 5 over an unchanged store returns
\* pairwise disjoint batches whose union is the whole collection, `next` is
\* present exactly when more results exist after the page, and the item
\* count over all pages equals the total.
C15_Pagination ==
  /\ C15_Traversal
  /\ \A k \in 1..Len(walk.pages) :
       walk.pages[k].next <=> walk.pages[k].cursor < Len(walk.coll)


(* ---------------------------------------------------------------------- *)
\* DELETE /loads/L of a stored load without carrier is settled, no
\* datastore call having failed.
C16_Case(i) ==
  /\ reqs[i].op = "deleteLoad" /\ reqs[i].pc = "update" /\ Completes(i)
  /\ reqs[i].l \in DOMAIN pre.loads
  /\ ~hasCarrier(pre.loads[reqs[i].l])
  /\ faults' = 0

\* C16: DELETE /loads/L of an existing load whose carrier is null deletes
\* only the load document, reads and writes no boat document, and is
\* answered 204.
C16_DeleteUnassigned ==
  [][\A i \in Slots : C16_Case(i) =>
       /\ reqs'[i].pc = "done" /\ reqs'[i].status = 204
       /\ reqs[i].rb = <<>>
       /\ boats' = pre.boats
       /\ loads' = Drop(pre.loads, reqs[i].l)]_vars


(* ---------------------------------------------------------------------- *)
\* C17: unassign and delete load never remove from a boat's loads an entry
\* whose id differs from L, and leave a list that holds no entry L as it is.
C17_OnlyOwnEntry ==
  [][\A i \in Slots :
       inFlight(reqs[i]) /\ reqs[i].op \in {"unassign", "deleteLoad"} =>
         \A b \in DOMAIN boats \cap DOMAIN boats' :
           /\ \A x \in LoadIds \ {reqs[i].l} :
                Count(boats'[b].loads, x) = Count(boats[b].loads, x)
           /\ reqs[i].l \notin ids(boats[b].loads) => boats'[b].loads = boats[b].loads]_vars


(* ---------------------------------------------------------------------- *)
\* No load names a boat that is not stored, no boat lists a load that is
\* not stored.
C18_NoDangling ==
  /\ \A l \in DOMAIN loads : hasCarrier(loads[l]) => loads[l].carrier.id \in DOMAIN boats
  /\ \A b \in DOMAIN boats : ids(boats[b].loads) \subseteq DOMAIN loads

\* C18: once every request in flight has completed, overlapping ones
\* included, and no datastore call has failed, no load's carrier names a
\* missing boat and no boat's loads lists a missing load.
C18_Referential == Settled /\ faults = 0 => C18_NoDangling


(* ---------------------------------------------------------------------- *)
\* C19: after any sequence of completed requests that do not overlap, each
\* load id occurs at most once in the loads of a boat and in the loads of
\* at most one boat.
C19_NoDuplicates ==
  Settled =>
    \A l \in LoadIds :
      /\ \A b \in DOMAIN boats : Count(boats[b].loads, l) <= 1
      /\ \A b, c \in DOMAIN boats :
           l \in ids(boats[b].loads) /\ l \in ids(boats[c].loads) => b = c


(* ---------------------------------------------------------------------- *)
\* An edit answered 200 and an assign or unassign answered 204 have
\* overlapped (both are settled in their slots) and no call has failed.
C20_Overlapped(i, j) ==
  /\ faults = 0
  /\ reqs[i].pc = "done" /\ reqs[i].status = 200
  /\ reqs[i].op \in {"putBoat", "patchBoat", "putLoad", "patchLoad"}
  /\ reqs[j].pc = "done" /\ reqs[j].status = 204
  /\ reqs[j].op \in {"assign", "unassign"}

\* C20: when a PUT or PATCH of a boat or load overlaps a successful assign
\* or unassign of it, the stored B.loads and L.carrier reflect the assign
\* or unassign: the edit does not write back the stale relationship field.
C20_EditKeepsRelationship ==
  \A i, j \in Slots :
    C20_Overlapped(i, j) =>
      \A b \in DOMAIN boats : \A l \in DOMAIN loads :
        IF reqs[j].op = "assign"
        THEN l \in ids(boats[b].loads) /\ loads[l].carrier.id = b
        ELSE l \notin ids(boats[b].loads) /\ ~hasCarrier(loads[l])


(* ---------------------------------------------------------------------- *)
\* C21: every boats or loads request that reaches a route handler is
\* answered, whatever the datastore calls give (found, absent, failing): no
\* path leaves it without response. (A settled request has pc "done", one
\* response sent, or "hung", none sent and none to come.)
C21_Answered ==
  \A i \in Slots :
    (inFlight(reqs[i]) /\ reqs[i].op \in BoatOps \cup LoadOps) ~> (reqs[i].pc = "done")

====
